---- MODULE Spec2Model ----
(***************************************************************************)
(* Half-Space Trees (src/src/lib.rs): a forest of randomized complete      *)
(* binary trees whose nodes carry a decayed visit count ("mass").          *)
(*                                                                         *)
(* Numbers.  f64 values are modelled as exact rationals <<num, den>> in    *)
(* lowest terms with den > 0; the IEEE special values that the code can    *)
(* produce without overflow are kept as den = 0: <<0,0>> is NaN (0.0/0.0), *)
(* <<1,0>> is +inf.  Rounding of f64 is not modelled.                      *)
(* Feature values, bounds and split values are taken on the integer grid.  *)
(* A panic (assert!, assert_eq!, unwrap on Err) is the outcome ok = FALSE  *)
(* of a call; what the call had already written stays written.             *)
(***************************************************************************)
EXTENDS Integers, Sequences, FiniteSets, TLC

VARIABLES phase, trees, args, built, last, nops, inserted, alphas

vars == <<phase, trees, args, built, last, nops, inserted, alphas>>

\* ---------------------------------------------------------------- bounds
MaxTrees == 2
MaxDepth == 2
MaxOps == 3

\* ------------------------------------------------------------ input sets
BoundsSet ==
  { <<>>, << <<0, 4>> >>, << <<0, 4>>, <<0, 4>> >>, << <<0, 4>>, <<2, 2>> >> }

XSet == { <<0>>, <<1>>, <<3>>, <<1, 3>> }

Alphas == { <<1, 2>>, <<1, 1>>, <<-2, 1>> }

\* seeds of the random source handed to new
Seeds == {7, 30, 38}

\* ------------------------------------------------------------ arithmetic
Abs(n) == IF n < 0 THEN -n ELSE n

RECURSIVE Gcd(_, _)
Gcd(a, b) == IF b = 0 THEN a ELSE Gcd(b, a % b)

Norm(n, d) ==
  IF d = 0 THEN <<(IF n > 0 THEN 1 ELSE IF n < 0 THEN -1 ELSE 0), 0>>
  ELSE LET g == Gcd(Abs(n), Abs(d))
           s == IF d < 0 THEN -1 ELSE 1
       IN <<(s * n) \div g, (s * d) \div g>>

Zero == <<0, 1>>
One == <<1, 1>>
NaN == <<0, 0>>

IsNaN(a) == a = NaN
IsFinite(a) == a[2] # 0

RatAdd(a, b) ==
  IF IsNaN(a) \/ IsNaN(b) THEN NaN
  ELSE IF a[2] = 0 /\ b[2] = 0 THEN (IF a = b THEN a ELSE NaN)
  ELSE IF a[2] = 0 THEN a
  ELSE IF b[2] = 0 THEN b
  ELSE Norm(a[1] * b[2] + b[1] * a[2], a[2] * b[2])

RatMul(a, b) ==
  IF IsNaN(a) \/ IsNaN(b) THEN NaN
  ELSE IF (a[2] = 0 /\ b[1] = 0) \/ (b[2] = 0 /\ a[1] = 0) THEN NaN
  ELSE Norm(a[1] * b[1], a[2] * b[2])

\* a / b in IEEE arithmetic: 0/0 is NaN, x/0 is +-inf
RatDiv(a, b) ==
  IF IsNaN(a) \/ IsNaN(b) THEN NaN
  ELSE IF a[2] = 0 /\ b[2] = 0 THEN NaN
  ELSE Norm(a[1] * b[2], a[2] * b[1])

\* the comparisons of f64: every comparison with NaN is false
RatLess(a, b) == IsFinite(a) /\ IsFinite(b) /\ a[1] * b[2] < b[1] * a[2]

\* f64::max: the other operand when one is NaN
RatMax(a, b) ==
  IF IsNaN(a) THEN b ELSE IF IsNaN(b) THEN a
  ELSE IF a[2] = 0 THEN (IF a[1] > 0 THEN a ELSE b)
  ELSE IF b[2] = 0 THEN (IF b[1] > 0 THEN b ELSE a)
  ELSE IF RatLess(a, b) THEN b ELSE a

\* ------------------------------------------------------- random source
\* The injected Rng: a deterministic stream fixed by its seed.
NextRng(s) == (7 * s + 3) % 61

\* rng.random_range(0..n)
RandomRange(s, n) == [val |-> NextRng(s) % n, rng |-> NextRng(s)]

\* Uniform::try_from(lo..hi): Err(EmptyRange) unless lo < hi
UniformOk(lo, hi) == lo < hi

\* between.sample(rng): a value of [lo, hi)
Sample(s, lo, hi) == [val |-> lo + (NextRng(s) % (hi - lo)), rng |-> NextRng(s)]

\* ---------------------------------------------------------------- Node
None == <<>>
Some(v) == <<v>>

MkNode(split_dim, split_val, left, right, depth) ==
  [split_dim |-> split_dim, split_val |-> split_val,
   left |-> left, right |-> right, depth |-> depth, mass |-> Zero]

IsLeafDepthShallow(depth, max_depth) == depth + 1 >= max_depth

IsLeafDepth(depth, max_depth) == depth = max_depth

\* Node::randomized; the result carries the advanced random source, and
\* ok = FALSE when the unwrap of Uniform::try_from panics.
RECURSIVE Randomized(_, _, _, _)
Randomized(depth, max_depth, bounds, rng) ==
  LET n_dims == Len(bounds)
      d == RandomRange(rng, n_dims)
      split_dim == d.val
      lo == bounds[split_dim + 1][1]
      hi == bounds[split_dim + 1][2]
  IN IF ~UniformOk(lo, hi) THEN [ok |-> FALSE, node |-> None, rng |-> d.rng]
     ELSE
       LET v == Sample(d.rng, lo, hi)
           split_val == v.val
       IN IF IsLeafDepth(depth, max_depth)
          THEN [ok |-> TRUE,
                node |-> Some(MkNode(split_dim, split_val, None, None, depth)),
                rng |-> v.rng]
          ELSE
            LET l == Randomized(depth + 1, max_depth, bounds, v.rng)
            IN IF ~l.ok THEN [ok |-> FALSE, node |-> None, rng |-> l.rng]
               ELSE
                 LET r == Randomized(depth + 1, max_depth, bounds, l.rng)
                 IN IF ~r.ok THEN [ok |-> FALSE, node |-> None, rng |-> r.rng]
                    ELSE [ok |-> TRUE,
                          node |-> Some(MkNode(split_dim, split_val,
                                               l.node, r.node, depth)),
                          rng |-> r.rng]

HasChildren(node) == node.left # None /\ node.right # None

InsertGoesLeftOrEqual(node, x) == x[node.split_dim + 1] <= node.split_val

InsertGoesLeft(node, x) == x[node.split_dim + 1] < node.split_val

RECURSIVE NodeInsert(_, _)

NodeInsertLeafOnly(node, x) ==
  IF HasChildren(node)
  THEN IF InsertGoesLeft(node, x)
       THEN [node EXCEPT !.left = Some(NodeInsert(node.left[1], x))]
       ELSE [node EXCEPT !.right = Some(NodeInsert(node.right[1], x))]
  ELSE [node EXCEPT !.mass = RatAdd(@, One)]

\* Node::insert
NodeInsert(node, x) ==
  LET n1 == [node EXCEPT !.mass = RatAdd(@, One)]
  IN IF HasChildren(node)
     THEN IF InsertGoesLeft(node, x)
          THEN [n1 EXCEPT !.left = Some(NodeInsert(node.left[1], x))]
          ELSE [n1 EXCEPT !.right = Some(NodeInsert(node.right[1], x))]
     ELSE n1

RECURSIVE NodeDecay(_, _)

NodeDecayLeftOnly(node, alpha) ==
  LET n1 == [node EXCEPT !.mass = RatMul(@, alpha)]
      n2 == IF node.left # None
            THEN [n1 EXCEPT !.left = Some(NodeDecay(node.left[1], alpha))]
            ELSE n1
  IN n2

\* Node::decay
NodeDecay(node, alpha) ==
  LET n1 == [node EXCEPT !.mass = RatMul(@, alpha)]
      n2 == IF node.left # None
            THEN [n1 EXCEPT !.left = Some(NodeDecay(node.left[1], alpha))]
            ELSE n1
  IN IF node.right # None
     THEN [n2 EXCEPT !.right = Some(NodeDecay(node.right[1], alpha))]
     ELSE n2

ScoreGoesLeft(node, x) == x[node.split_dim + 1] < node.split_val

\* the loop of Node::score: the node at which it breaks
RECURSIVE ScoreLeaf(_, _)
ScoreLeaf(node, x) ==
  IF HasChildren(node)
  THEN IF ScoreGoesLeft(node, x) THEN ScoreLeaf(node.left[1], x)
       ELSE ScoreLeaf(node.right[1], x)
  ELSE node

DepthFactor(depth, max_depth) ==
  RatAdd(One, RatDiv(<<max_depth - depth, 1>>, <<max_depth + 1, 1>>))

RarityIgnoringMass(mass) == One

Rarity(mass) == RatDiv(One, RatAdd(One, RatMax(mass, Zero)))

\* Node::score
NodeScore(node, x, max_depth) ==
  LET leaf == ScoreLeaf(node, x)
  IN RatMul(Rarity(leaf.mass), DepthFactor(leaf.depth, max_depth))

\* ------------------------------------------------------- HalfSpaceTree
\* HalfSpaceTree::new
TreeNew(max_depth, bounds, rng) ==
  IF Len(bounds) = 0 THEN [ok |-> FALSE, tree |-> None, rng |-> rng]
  ELSE LET r == Randomized(0, max_depth, bounds, rng)
       IN IF ~r.ok THEN [ok |-> FALSE, tree |-> None, rng |-> r.rng]
          ELSE [ok |-> TRUE,
                tree |-> Some([root |-> r.node[1], max_depth |-> max_depth,
                               n_dims |-> Len(bounds)]),
                rng |-> r.rng]

TreeInsertThenAssert(t, x) ==
  IF Len(x) # t.n_dims
  THEN [ok |-> FALSE, tree |-> [t EXCEPT !.root.mass = RatAdd(@, One)]]
  ELSE [ok |-> TRUE, tree |-> [t EXCEPT !.root = NodeInsert(t.root, x)]]

\* HalfSpaceTree::insert
TreeInsert(t, x) ==
  IF Len(x) # t.n_dims THEN [ok |-> FALSE, tree |-> t]
  ELSE [ok |-> TRUE, tree |-> [t EXCEPT !.root = NodeInsert(t.root, x)]]

\* HalfSpaceTree::decay
TreeDecay(t, alpha) == [t EXCEPT !.root = NodeDecay(t.root, alpha)]

\* HalfSpaceTree::score
TreeScore(t, x) ==
  IF Len(x) # t.n_dims THEN [ok |-> FALSE, val |-> NaN]
  ELSE [ok |-> TRUE, val |-> NodeScore(t.root, x, t.max_depth)]

\* ------------------------------------------------------ HalfSpaceTrees
\* HalfSpaceTrees::new: the trees are built one after the other from the
\* same random source
RECURSIVE ForestNewFrom(_, _, _, _, _)
ForestNewFrom(acc, k, max_depth, bounds, rng) ==
  IF k = 0 THEN [ok |-> TRUE, trees |-> acc, rng |-> rng]
  ELSE LET r == TreeNew(max_depth, bounds, rng)
       IN IF ~r.ok THEN [ok |-> FALSE, trees |-> <<>>, rng |-> r.rng]
          ELSE ForestNewFrom(Append(acc, r.tree[1]), k - 1, max_depth,
                             bounds, r.rng)

ForestNew(n_trees, max_depth, bounds, rng) ==
  ForestNewFrom(<<>>, n_trees, max_depth, bounds, rng)

\* HalfSpaceTrees::insert: the loop stops at the first tree that panics
RECURSIVE ForestInsertFrom(_, _, _)
ForestInsertFrom(ts, x, i) ==
  IF i > Len(ts) THEN [ok |-> TRUE, trees |-> ts]
  ELSE LET r == TreeInsert(ts[i], x)
       IN IF ~r.ok THEN [ok |-> FALSE, trees |-> [ts EXCEPT ![i] = r.tree]]
          ELSE ForestInsertFrom([ts EXCEPT ![i] = r.tree], x, i + 1)

ForestInsert(ts, x) == ForestInsertFrom(ts, x, 1)

\* HalfSpaceTrees::decay
ForestDecay(ts, alpha) == [i \in 1..Len(ts) |-> TreeDecay(ts[i], alpha)]

\* HalfSpaceTrees::score: s accumulates from 0.0, then s / len
RECURSIVE ForestScoreFrom(_, _, _, _)
ForestScoreFrom(ts, x, i, s) ==
  IF i > Len(ts) THEN [ok |-> TRUE, val |-> RatDiv(s, <<Len(ts), 1>>)]
  ELSE LET r == TreeScore(ts[i], x)
       IN IF ~r.ok THEN [ok |-> FALSE, val |-> NaN]
          ELSE ForestScoreFrom(ts, x, i + 1, RatAdd(s, r.val))

ForestScore(ts, x) == ForestScoreFrom(ts, x, 1, Zero)

\* --------------------------------------------------------------- state
NoCall == [op |-> "none", x |-> <<>>, alpha |-> Zero, ok |-> TRUE,
           val |-> Zero, pre |-> <<>>]

Init ==
  /\ phase = "start"
  /\ trees = <<>>
  /\ args = [n_trees |-> 0, max_depth |-> 0, bounds |-> <<>>, seed |-> 0]
  /\ built = <<>>
  /\ last = NoCall
  /\ nops = 0
  /\ inserted = {}
  /\ alphas = {}

\* let forest = HalfSpaceTrees::new(n_trees, max_depth, &bounds, &mut rng)
New ==
  /\ phase = "start"
  /\ \E n_trees \in 0..MaxTrees, max_depth \in 0..MaxDepth,
        bounds \in BoundsSet, seed \in Seeds :
       LET r == ForestNew(n_trees, max_depth, bounds, seed)
       IN /\ args' = [n_trees |-> n_trees, max_depth |-> max_depth,
                      bounds |-> bounds, seed |-> seed]
          /\ phase' = IF r.ok THEN "ready" ELSE "panicked"
          /\ trees' = r.trees
          /\ built' = r.trees
  /\ UNCHANGED <<last, nops, inserted, alphas>>

\* forest.insert(&x)
Insert ==
  /\ phase = "ready"
  /\ nops < MaxOps
  /\ \E x \in XSet :
       LET r == ForestInsert(trees, x)
       IN /\ trees' = r.trees
          /\ last' = [op |-> "insert", x |-> x, alpha |-> Zero, ok |-> r.ok,
                      val |-> Zero, pre |-> trees]
          /\ inserted' = IF r.ok THEN inserted \cup {x} ELSE inserted
  /\ nops' = nops + 1
  /\ UNCHANGED <<phase, args, built, alphas>>

\* forest.decay(alpha)
Decay ==
  /\ phase = "ready"
  /\ nops < MaxOps
  /\ \E alpha \in Alphas :
       /\ trees' = ForestDecay(trees, alpha)
       /\ last' = [op |-> "decay", x |-> <<>>, alpha |-> alpha, ok |-> TRUE,
                   val |-> Zero, pre |-> trees]
       /\ alphas' = alphas \cup {alpha}
  /\ nops' = nops + 1
  /\ UNCHANGED <<phase, args, built, inserted>>

\* forest.score(&x)
Score ==
  /\ phase = "ready"
  /\ nops < MaxOps
  /\ \E x \in XSet :
       LET r == ForestScore(trees, x)
       IN last' = [op |-> "score", x |-> x, alpha |-> Zero, ok |-> r.ok,
                   val |-> r.val, pre |-> trees]
  /\ nops' = nops + 1
  /\ UNCHANGED <<phase, trees, args, built, inserted, alphas>>

Next == New \/ Insert \/ Decay \/ Score

Spec == Init /\ [][Next]_vars
\* ------------------------------------------------- addressing of nodes
\* A position is the sequence of turns from the root: 0 = left, 1 = right.
RECURSIVE Positions(_)
Positions(node) ==
  {<<>>}
  \cup (IF node.left # None
        THEN {<<0>> \o q : q \in Positions(node.left[1])} ELSE {})
  \cup (IF node.right # None
        THEN {<<1>> \o q : q \in Positions(node.right[1])} ELSE {})

RECURSIVE NodeAt(_, _)
NodeAt(node, p) ==
  IF p = <<>> THEN node
  ELSE IF p[1] = 0 THEN NodeAt(node.left[1], Tail(p))
  ELSE NodeAt(node.right[1], Tail(p))

\* The positions on the root-to-leaf path selected by x: left child when
\* x[split_dim] < split_val, right child otherwise.
RECURSIVE Route(_, _)
Route(node, x) ==
  IF node.left = None \/ node.right = None THEN {<<>>}
  ELSE IF x[node.split_dim + 1] < node.split_val
       THEN {<<>>} \cup {<<0>> \o q : q \in Route(node.left[1], x)}
       ELSE {<<>>} \cup {<<1>> \o q : q \in Route(node.right[1], x)}

\* the last position of the route
LeafPos(node, x) ==
  CHOOSE p \in Route(node, x) : \A q \in Route(node, x) : Len(q) <= Len(p)

Leaves(node) == {p \in Positions(node) : NodeAt(node, p).left = None}

\* the sum of the masses of the leaves below (and including) a node
RECURSIVE SumLeafMass(_)
SumLeafMass(node) ==
  IF node.left = None THEN node.mass
  ELSE RatAdd(SumLeafMass(node.left[1]), SumLeafMass(node.right[1]))

RECURSIVE CountLeaves(_)
CountLeaves(node) ==
  IF node.left = None THEN 1
  ELSE CountLeaves(node.left[1]) + CountLeaves(node.right[1])

TreeIds == 1..Len(trees)

\* ---------------------------------------------------------------- C1
\* C1: a successful insert(x) adds exactly 1 to the mass of every node on
\* the path selected by x, that path has max_depth + 1 nodes, and every
\* other node keeps its mass.
C1_InsertPath ==
  (last.op = "insert" /\ last.ok) =>
    \A i \in TreeIds :
      LET pre == last.pre[i].root
          post == trees[i].root
          R == Route(pre, last.x)
      IN /\ Positions(post) = Positions(pre)
         /\ Cardinality(R) = last.pre[i].max_depth + 1
         /\ \A p \in Positions(pre) :
              LET m == NodeAt(pre, p).mass
                  m2 == NodeAt(post, p).mass
              IN IF p \in R
                 THEN m2[1] * m[2] = (m[1] + m[2]) * m2[2]
                 ELSE m2 = m

C1_Witness ==
  /\ last.op = "insert" /\ last.ok
  /\ \E i \in TreeIds :
       /\ last.pre[i].max_depth >= 2
       /\ \E p \in Positions(last.pre[i].root) :
            /\ p \notin Route(last.pre[i].root, last.x)
            /\ NodeAt(last.pre[i].root, p).mass # Zero

\* ---------------------------------------------------------------- C2
\* C2: decay(alpha) replaces the mass m of every node of every tree by
\* m * alpha; for 0 < alpha < 1 a positive mass becomes strictly smaller,
\* and decay(1.0) changes no mass.
C2_DecayEveryNode ==
  (last.op = "decay") =>
    /\ Len(trees) = Len(last.pre)
    /\ \A i \in TreeIds :
         LET pre == last.pre[i].root
             post == trees[i].root
             a == last.alpha
         IN /\ Positions(post) = Positions(pre)
            /\ \A p \in Positions(pre) :
                 LET m == NodeAt(pre, p).mass
                     m2 == NodeAt(post, p).mass
                 IN /\ m2[1] * m[2] * a[2] = m[1] * a[1] * m2[2]
                    /\ (a[1] > 0 /\ a[1] < a[2] /\ m[1] > 0) =>
                         m2[1] * m[2] < m[1] * m2[2]
                    /\ (a = One) => m2 = m

C2_Witness ==
  /\ last.op = "decay" /\ last.alpha = <<1, 2>>
  /\ \E i \in TreeIds :
       /\ last.pre[i].root.left # None
       /\ last.pre[i].root.left[1].mass[1] > 0
       /\ last.pre[i].root.right[1].mass[1] > 0

\* ---------------------------------------------------------------- C3
\* C3: every score that returns is finite and lies in (0, 2].
C3_ScoreRange ==
  (last.op = "score" /\ last.ok) =>
    /\ IsFinite(last.val)
    /\ last.val[1] > 0
    /\ last.val[1] <= 2 * last.val[2]

\* ---------------------------------------------------------------- C4
\* C4: insert and score with a vector whose length differs from the number
\* of bounds given at construction fail.
C4_LengthMismatchFails ==
  (last.op \in {"insert", "score"} /\ Len(last.x) # Len(args.bounds)) =>
    ~last.ok

\* ---------------------------------------------------------------- C5
Degenerate(bounds) ==
  \/ bounds = <<>>
  \/ \E d \in 1..Len(bounds) : bounds[d][1] = bounds[d][2]

\* C5: construction fails whenever bounds is empty or some dimension has
\* min = max.
C5_BadBoundsRejected ==
  (phase # "start" /\ Degenerate(args.bounds)) => phase = "panicked"

\* ---------------------------------------------------------------- C6
\* C6: a forest insert that fails leaves every mass as it was; an insert or
\* decay that succeeds has updated every tree.
C6_AllOrNothing ==
  /\ (last.op = "insert" /\ ~last.ok) => trees = last.pre
  /\ (last.op = "insert" /\ last.ok) =>
       \A i \in TreeIds :
         LET m == last.pre[i].root.mass
             m2 == trees[i].root.mass
         IN m2[1] * m[2] = (m[1] + m[2]) * m2[2]
  /\ (last.op = "decay") =>
       \A i \in TreeIds :
         LET m == last.pre[i].root.mass
             m2 == trees[i].root.mass
             a == last.alpha
         IN m2[1] * m[2] * a[2] = m[1] * a[1] * m2[2]

C6_Witness ==
  /\ last.op = "insert" /\ ~last.ok
  /\ Len(trees) >= 2
  /\ \A i \in TreeIds : trees[i].root.mass # Zero

\* ---------------------------------------------------------------- C7
RECURSIVE Complete(_, _, _)
Complete(node, d, max_depth) ==
  /\ node.depth = d
  /\ (node.left = None) = (node.right = None)
  /\ (node.left = None) = (d = max_depth)
  /\ node.left # None =>
       /\ Complete(node.left[1], d + 1, max_depth)
       /\ Complete(node.right[1], d + 1, max_depth)

\* a node and everything below it with the masses set to 0
RECURSIVE Shape(_)
Shape(node) ==
  [split_dim |-> node.split_dim, split_val |-> node.split_val,
   left |-> IF node.left = None THEN None ELSE Some(Shape(node.left[1])),
   right |-> IF node.right = None THEN None ELSE Some(Shape(node.right[1])),
   depth |-> node.depth, mass |-> Zero]

\* C7: every tree is a complete binary tree of depth max_depth whose nodes
\* start with mass 0, and insert, decay and score change nothing but mass.
C7_CompleteAndFixedShape ==
  (phase = "ready") =>
    /\ Len(trees) = args.n_trees
    /\ Len(built) = args.n_trees
    /\ \A i \in TreeIds :
         /\ Complete(trees[i].root, 0, args.max_depth)
         /\ CountLeaves(trees[i].root) = 2 ^ args.max_depth
         /\ trees[i].max_depth = args.max_depth
         /\ trees[i].n_dims = Len(args.bounds)
         /\ built[i].root = Shape(built[i].root)
         /\ Shape(trees[i].root) = built[i].root

C7_Witness ==
  /\ phase = "ready" /\ nops >= 3
  /\ args.max_depth >= 2
  /\ \E i \in TreeIds : trees[i] # built[i]
  /\ last.op = "score" /\ last.ok

\* ---------------------------------------------------------------- C10
RECURSIVE Conserved(_)
Conserved(node) ==
  node.left # None =>
    /\ node.mass[1] * node.left[1].mass[2] * node.right[1].mass[2]
         = node.mass[2] * ( node.left[1].mass[1] * node.right[1].mass[2]
                            + node.right[1].mass[1] * node.left[1].mass[2] )
    /\ Conserved(node.left[1])
    /\ Conserved(node.right[1])

\* C10: the mass of every internal node is the sum of the masses of its
\* two children, the root mass is the sum of the leaf masses, and all
\* trees of a forest have the same root mass.
C10_MassConservation ==
  (phase = "ready") =>
    /\ \A i \in TreeIds :
         /\ Conserved(trees[i].root)
         /\ trees[i].root.mass = SumLeafMass(trees[i].root)
    /\ \A i, j \in TreeIds : trees[i].root.mass = trees[j].root.mass

C10_Witness ==
  /\ phase = "ready"
  /\ Len(trees) >= 2
  /\ args.max_depth >= 2
  /\ <<-2, 1>> \in alphas
  /\ last.op = "insert" /\ last.ok
  /\ \E p \in Leaves(trees[1].root) :
       NodeAt(trees[1].root, p).mass \notin {Zero, One}
\* ---------------------------------------------------------------- C8
\* The inserted points form one tight cluster, a near query is within the
\* cluster's spread of every inserted point, a far query is farther than
\* that from every inserted point (Chebyshev distance on the grid).
Dist(x, y) ==
  LET ds == {Abs(x[k] - y[k]) : k \in 1..Len(x)}
  IN CHOOSE m \in ds : \A e \in ds : e <= m

\* (stated for forests of at least one tree)
ClusterHistory ==
  /\ phase = "ready"
  /\ Len(trees) >= 1
  /\ inserted # {}
  /\ alphas # {}
  /\ \A a \in alphas : a[1] > 0 /\ a[1] < a[2]
  /\ \A s, t \in inserted : Dist(s, t) <= 1

Queries == {q \in XSet : Len(q) = Len(args.bounds)}

NearQ(q) == \A s \in inserted : Dist(q, s) <= 1
FarQ(f) == \A s \in inserted : Dist(f, s) >= 2

\* C8 (as stated): after inserts from one tight cluster with decays in
\* (0,1), a near query scores strictly less than a far query.
C8_NearBelowFar ==
  ClusterHistory =>
    \A q, f \in Queries :
      (NearQ(q) /\ FarQ(f)) =>
        RatLess(ForestScore(trees, q).val, ForestScore(trees, f).val)

InClusterLeaf(t, q) ==
  \A s \in inserted : LeafPos(t.root, s) = LeafPos(t.root, q)

\* C8 (amended): the near query scores strictly less than the far query
\* when every tree routes the near query to the leaf of every inserted
\* point and at least one tree routes the far query to another leaf.
C8_NearBelowFarWhenSeparated ==
  ClusterHistory =>
    \A q, f \in Queries :
      ( /\ NearQ(q) /\ FarQ(f)
        /\ \A i \in TreeIds : InClusterLeaf(trees[i], q)
        /\ \E i \in TreeIds :
             LeafPos(trees[i].root, f) # LeafPos(trees[i].root, q) ) =>
        RatLess(ForestScore(trees, q).val, ForestScore(trees, f).val)

C8_Witness ==
  /\ ClusterHistory
  /\ Len(trees) >= 2
  /\ Cardinality(inserted) >= 2
  /\ last.op = "insert" /\ last.ok
  /\ \E q, f \in Queries :
       /\ NearQ(q) /\ FarQ(f)
       /\ \A i \in TreeIds : InClusterLeaf(trees[i], q)
       /\ \E i \in TreeIds :
            LeafPos(trees[i].root, f) # LeafPos(trees[i].root, q)
       /\ \E i \in TreeIds :
            LeafPos(trees[i].root, f) = LeafPos(trees[i].root, q)

\* ---------------------------------------------------------------- C9
\* C9: score(x) reads the leaf that insert(x) increments last; after
\* inserts and decays with alpha in (0,1], insert(x) makes every tree's
\* score(x) and the forest's score(x) strictly smaller, and score changes
\* no mass.
C9_InsertLowersScore ==
  /\ (last.op = "score") => trees = last.pre
  /\ ( /\ last.op = "insert" /\ last.ok
       /\ \A a \in alphas : a[1] > 0 /\ a[1] <= a[2] ) =>
       /\ \A i \in TreeIds :
            /\ ScoreLeaf(trees[i].root, last.x)
                 = NodeAt(trees[i].root, LeafPos(trees[i].root, last.x))
            /\ RatLess(TreeScore(trees[i], last.x).val,
                       TreeScore(last.pre[i], last.x).val)
       /\ RatLess(ForestScore(trees, last.x).val,
                  ForestScore(last.pre, last.x).val)
====
